---- MODULE Spec2Model ----
(***************************************************************************)
(* Model of the container_config_hash Ansible module                       *)
(* (edpm_ansible/ansible_plugins/modules/container_config_hash.py).        *)
(*                                                                         *)
(* Python strings are modelled as sequences of one-character strings, so   *)
(* that startswith, rstrip, split, dirname, join and sorted are computed   *)
(* character by character as the interpreter computes them.                *)
(***************************************************************************)
EXTENDS Integers, Sequences, FiniteSets, TLC

(***************************************************************************)
(* Python str primitives                                                   *)
(***************************************************************************)

\* ord(c) for the characters that occur in the model (ASCII code points).
ord(c) ==
    CASE c = "\n" -> 10
      [] c = "-" -> 45
      [] c = "." -> 46
      [] c = "/" -> 47
      [] c = "1" -> 49
      [] c = "2" -> 50
      [] c = "5" -> 53
      [] c = ":" -> 58
      [] c = "a" -> 97
      [] c = "b" -> 98
      [] c = "c" -> 99
      [] c = "d" -> 100
      [] c = "e" -> 101
      [] c = "g" -> 103
      [] c = "h" -> 104
      [] c = "i" -> 105
      [] c = "j" -> 106
      [] c = "l" -> 108
      [] c = "m" -> 109
      [] c = "n" -> 110
      [] c = "o" -> 111
      [] c = "p" -> 112
      [] c = "q" -> 113
      [] c = "r" -> 114
      [] c = "s" -> 115
      [] c = "t" -> 116
      [] c = "u" -> 117
      [] c = "v" -> 118
      [] c = "x" -> 120
      [] c = "y" -> 121

\* s.startswith(p)
startswith(s, p) ==
    /\ Len(p) <= Len(s)
    /\ SubSeq(s, 1, Len(p)) = p

\* s.endswith(p)
endswith(s, p) ==
    /\ Len(p) <= Len(s)
    /\ SubSeq(s, Len(s) - Len(p) + 1, Len(s)) = p

\* s.rstrip(c) for a single character c
RECURSIVE rstrip(_, _)
rstrip(s, c) ==
    IF s # <<>> /\ s[Len(s)] = c THEN rstrip(SubSeq(s, 1, Len(s) - 1), c) ELSE s

\* s.lstrip(c) for a single character c
RECURSIVE lstrip(_, _)
lstrip(s, c) ==
    IF s # <<>> /\ s[1] = c THEN lstrip(Tail(s), c) ELSE s

\* s.strip(c) for a single character c
strip(s, c) == rstrip(lstrip(s, c), c)

\* s.rfind(c): the highest 0-based index of character c in s, or -1
rfind(s, c) ==
    LET hits == {i \in 1..Len(s) : s[i] = c}
    IN  IF hits = {} THEN -1
        ELSE (CHOOSE i \in hits : \A j \in hits : j <= i) - 1

\* s.find(c): the lowest 0-based index of character c in s, or -1
find(s, c) ==
    LET hits == {i \in 1..Len(s) : s[i] = c}
    IN  IF hits = {} THEN -1
        ELSE (CHOOSE i \in hits : \A j \in hits : i <= j) - 1

\* s.split(c)[0]: the part of s before the first c (all of s when c is absent)
split0(s, c) ==
    IF find(s, c) = -1 THEN s ELSE SubSeq(s, 1, find(s, c))

\* a < b for Python strings: lexicographic by code point, a proper prefix first
RECURSIVE str_lt(_, _)
str_lt(a, b) ==
    IF b = <<>> THEN FALSE
    ELSE IF a = <<>> THEN TRUE
    ELSE IF a[1] # b[1] THEN ord(a[1]) < ord(b[1])
    ELSE str_lt(Tail(a), Tail(b))

\* sep.join(parts)
RECURSIVE join(_, _)
join(sep, parts) ==
    IF parts = <<>> THEN <<>>
    ELSE IF Len(parts) = 1 THEN parts[1]
    ELSE parts[1] \o sep \o join(sep, Tail(parts))

\* insertion of x into an ascending list, after the elements not greater than x
RECURSIVE insort(_, _)
insort(x, l) ==
    IF l = <<>> THEN <<x>>
    ELSE IF str_lt(x, l[1]) THEN <<x>> \o l
    ELSE <<l[1]>> \o insort(x, Tail(l))

\* sorted(set(l)): a variant of sorted that drops repeated elements
RECURSIVE sorted_set(_)
sorted_set(l) ==
    IF l = <<>> THEN <<>>
    ELSE LET rest == sorted_set(SubSeq(l, 1, Len(l) - 1))
         IN  IF \E i \in 1..Len(rest) : rest[i] = l[Len(l)] THEN rest
             ELSE insort(l[Len(l)], rest)

\* list(l): a variant of sorted that keeps the order given
unsorted(l) == l

\* sorted(l) for a list of strings (stable, ascending)
RECURSIVE sorted(_)
sorted(l) ==
    IF l = <<>> THEN <<>>
    ELSE insort(l[Len(l)], sorted(SubSeq(l, 1, Len(l) - 1)))

(***************************************************************************)
(* os.path (posixpath)                                                     *)
(***************************************************************************)

sep == <<"/">>

\* os.path.dirname(p): the head up to the last '/', with trailing slashes
\* removed unless the head consists of slashes only
dirname(p) ==
    LET i == rfind(p, "/") + 1
        head == SubSeq(p, 1, i)
    IN  IF head # <<>> /\ rstrip(head, "/") # <<>> THEN rstrip(head, "/") ELSE head

\* os.path.basename(p)
basename(p) == SubSeq(p, rfind(p, "/") + 2, Len(p))

\* os.path.join(a, b)
path_join(a, b) ==
    IF startswith(b, sep) THEN b
    ELSE IF a = <<>> \/ endswith(a, sep) THEN a \o b
    ELSE a \o sep \o b

\* os.path.splitext(p)[0]: p without its extension; leading dots of the
\* last component do not start an extension
splitext0(p) ==
    LET sepIndex == rfind(p, "/")
        dotIndex == rfind(p, ".")
    IN  IF dotIndex > sepIndex
           /\ \E k \in (sepIndex + 1)..(dotIndex - 1) : p[k + 1] # "."
        THEN SubSeq(p, 1, dotIndex)
        ELSE p

(***************************************************************************)
(* Python and JSON values                                                  *)
(***************************************************************************)

None == [type |-> "NoneType"]
Str(s) == [type |-> "str", s |-> s]
Num(n) == [type |-> "int", n |-> n]
List(items) == [type |-> "list", items |-> items]
\* a dict keeps its keys in insertion order; vals[i] is the value of keys[i]
Dict(keys, vals) == [type |-> "dict", keys |-> keys, vals |-> vals]

\* k in d
dict_has(d, k) == \E i \in 1..Len(d.keys) : d.keys[i] = k

\* d.get(k, default)
dict_get(d, k, default) ==
    IF dict_has(d, k)
    THEN d.vals[CHOOSE i \in 1..Len(d.keys) : d.keys[i] = k]
    ELSE default

\* d[k] = v
dict_set(d, k, v) ==
    IF dict_has(d, k)
    THEN Dict(d.keys, [i \in 1..Len(d.keys) |-> IF d.keys[i] = k THEN v ELSE d.vals[i]])
    ELSE Dict(Append(d.keys, k), Append(d.vals, v))

\* bool(x) for the values that reach filter(None, ...)
truthy(x) == x # None /\ x # Str(<<>>)

\* list(filter(None, l)): the truthy elements of l, in order
RECURSIVE filter_None(_)
filter_None(l) ==
    IF l = <<>> THEN <<>>
    ELSE IF truthy(l[1]) THEN <<l[1]>> \o filter_None(Tail(l))
    ELSE filter_None(Tail(l))

\* bool(filter(None, l)): under Python 3 filter() returns an iterator object,
\* which defines neither __bool__ nor __len__ and is therefore always true
filter_object_bool(l) == TRUE

\* How a call ends: it returns val, it calls module.fail_json(msg=val) (which
\* exits the process), it raises the exception named val, or it never ends.
return(val) == [out |-> "return", val |-> val]
fail_json(msg) == [out |-> "fail_json", val |-> msg]
raise(exc) == [out |-> "raise", val |-> [exception |-> exc]]
loop_forever == [out |-> "loop", val |-> None]

\* The elements a for loop draws from value x, as Python values: the items of
\* a list, the characters of a str, the keys of a dict; anything else is not
\* iterable.
iterate(x) ==
    CASE x.type = "list" -> return(x.items)
      [] x.type = "str" -> return([i \in 1..Len(x.s) |-> Str(<<x.s[i]>>)])
      [] x.type = "dict" -> return([i \in 1..Len(x.keys) |-> Str(x.keys[i])])
      [] OTHER -> raise("TypeError")

(***************************************************************************)
(* Program constants                                                       *)
(***************************************************************************)

CONTAINER_STARTUP_CONFIG ==
    <<"/", "v", "a", "r", "/", "l", "i", "b", "/", "e", "d", "p", "m",
    "-", "c", "o", "n", "f", "i", "g", "/", "c", "o", "n", "t", "a", "i",
    "n", "e", "r", "-", "s", "t", "a", "r", "t", "u", "p", "-", "c", "o",
    "n", "f", "i", "g">>

ansible_generated ==
    <<"a", "n", "s", "i", "b", "l", "e", "-", "g", "e", "n", "e", "r",
    "a", "t", "e", "d">>

md5sum == <<".", "m", "d", "5", "s", "u", "m">>

dot_json == <<".", "j", "s", "o", "n">>

hashed_ == <<"h", "a", "s", "h", "e", "d", "-">>

k_volumes == <<"v", "o", "l", "u", "m", "e", "s">>

k_environment == <<"e", "n", "v", "i", "r", "o", "n", "m", "e", "n", "t">>

k_EDPM_CONFIG_HASH ==
    <<"E", "D", "P", "M", "_", "C", "O", "N", "F", "I", "G", "_", "H",
    "A", "S", "H">>

\* the permission bits os.chmod(path, 0o600) sets
MODE_0600 == 384

(***************************************************************************)
(* State                                                                   *)
(***************************************************************************)

VARIABLES
    config_vol_prefix,  \* module.params['config_vol_prefix']
    check_mode,         \* module.params['check_mode']
    root_exists,        \* whether CONTAINER_STARTUP_CONFIG exists
    fs,                 \* the files: path -> [data, mode]
    pc,                 \* where the run is: main, loop, exit, fail, raise, hang
    configs,            \* the rest of the list _find returned
    results,            \* the results dict given to exit_json
    failure,            \* what ended the run abnormally, or None
    warnings,           \* the paths module.warn was called about in this run
    run,                \* the number of the current run
    before,             \* fs as it was when the current run started
    log,                \* the descriptors this run has handled, with the outcome
    history,            \* one record for each completed run
    m_pc,               \* matcher harness: off, input, matched, hashed
    in_volumes,         \* matcher harness: the volumes list given
    m_out,              \* matcher harness: how _match_config_volumes ended
    m_hash              \* matcher harness: the joined hashes

vars ==
    <<config_vol_prefix, check_mode, root_exists, fs, pc, configs, results,
      failure, warnings, run, before, log, history,
      m_pc, in_volumes, m_out, m_hash>>

run_vars ==
    <<check_mode, root_exists, pc, configs, results, failure, warnings, run,
      before, log, history>>

match_vars == <<m_pc, in_volumes, m_out, m_hash>>

(***************************************************************************)
(* The files                                                               *)
(***************************************************************************)

\* file data: plain text, or the text of a JSON document written with the
\* given indentation
Text(s) == [kind |-> "text", text |-> s]
JsonText(doc, indent) == [kind |-> "json", doc |-> doc, indent |-> indent]
File(data, mode) == [data |-> data, mode |-> mode]

\* os.path.exists(path)
exists(path) == path \in DOMAIN fs

\* json.dumps(obj, indent=2)
json_dumps(obj) == JsonText(obj, 2)

\* json.loads(s): the document, whatever its indentation; text that is no
\* JSON document raises
json_loads(s) ==
    IF s.kind = "json" THEN return(s.doc) ELSE raise("JSONDecodeError")

\* fnmatch.fnmatch(filename, '*.json')
fnmatch_json(filename) == endswith(filename, dot_json)

\* _find(CONTAINER_STARTUP_CONFIG): the files under the directory whose name
\* matches *.json (os.walk lists them in directory order, which is arbitrary)
find_configs ==
    IF root_exists
    THEN {p \in DOMAIN fs :
            /\ startswith(p, CONTAINER_STARTUP_CONFIG \o sep)
            /\ fnmatch_json(basename(p))}
    ELSE {}

\* the warning _find emits when the directory is missing
find_warnings == IF root_exists THEN {} ELSE {CONTAINER_STARTUP_CONFIG}

\* _slurp(path): the content, or '' with a warning when the file is missing
slurp(path) ==
    IF exists(path) THEN [data |-> fs[path].data, warn |-> {}]
    ELSE [data |-> Text(<<>>), warn |-> {path}]

(***************************************************************************)
(* _get_config_hash, _get_config_base, _match_config_volumes               *)
(***************************************************************************)

\* a variant of get_config_hash that returns the text as it is
get_config_hash_as_read(config_volume) ==
    IF exists(config_volume \o md5sum)
    THEN Str(slurp(config_volume \o md5sum).data.text)
    ELSE None

\* _get_config_hash(config_volume): the digest file's text without leading
\* and trailing newlines, or None when there is no digest file
get_config_hash(config_volume) ==
    LET hashfile == config_volume \o md5sum
    IN  IF exists(hashfile)
        THEN Str(strip(slurp(hashfile).data.text, "\n"))
        ELSE None

\* the while loop of _get_config_base. An iteration that leaves path as it
\* was while it still starts with prefix repeats for ever.
RECURSIVE crawl(_, _, _, _)
crawl(path, prefix, base, base_generated) ==
    IF ~startswith(path, prefix) THEN [out |-> "break", val |-> None]
    ELSE LET dir == dirname(path)
         IN  IF dir = base \/ dir = base_generated THEN return(path)
             ELSE IF dir = path THEN loop_forever
             ELSE crawl(dir, prefix, base, base_generated)

\* _get_config_base(prefix, volume)
get_config_base(prefix, volume) ==
    LET base == rstrip(prefix, "/")
        base_generated == path_join(base, ansible_generated)
        walk == crawl(volume, prefix, base, base_generated)
    IN  IF walk.out = "break"
        THEN fail_json([error |-> "Could not find config base",
                        volume |-> volume, prefix |-> prefix])
        ELSE walk

\* [self._get_config_base(prefix, v.split(":")[0])
\*  for v in volumes if v.startswith(prefix)]
RECURSIVE config_bases(_, _)
config_bases(prefix, volumes) ==
    IF volumes = <<>> THEN return(<<>>)
    ELSE LET v == volumes[1]
         IN  IF v.type # "str" THEN raise("AttributeError")
             ELSE IF ~startswith(v.s, prefix)
             THEN config_bases(prefix, Tail(volumes))
             ELSE LET b == get_config_base(prefix, split0(v.s, ":"))
                  IN  IF b.out # "return" THEN b
                      ELSE LET rest == config_bases(prefix, Tail(volumes))
                           IN  IF rest.out # "return" THEN rest
                               ELSE return(<<b.val>> \o rest.val)

\* _match_config_volumes(config)
match_config_volumes(config) ==
    LET prefix == config_vol_prefix
    IN  IF config.type # "dict"
        THEN fail_json([error |-> "Error fetching volumes",
                        prefix |-> prefix, config |-> config])
        ELSE LET volumes == iterate(dict_get(config, k_volumes, List(<<>>)))
             IN  IF volumes.out # "return" THEN volumes
                 ELSE LET bases == config_bases(prefix, volumes.val)
                      IN  IF bases.out # "return" THEN bases
                          ELSE return(sorted(bases.val))

\* [self._get_config_hash(vol_path) for vol_path in config_volumes]
config_hashes_of(config_volumes) ==
    [i \in 1..Len(config_volumes) |-> get_config_hash(config_volumes[i])]

\* a variant of join_hashes that keeps the first hash only
first_hash(config_hashes) ==
    IF filter_None(config_hashes) = <<>> THEN <<>>
    ELSE filter_None(config_hashes)[1].s

\* '-'.join(filter(None, config_hashes))
join_hashes(config_hashes) ==
    join(<<"-">>, [i \in 1..Len(filter_None(config_hashes)) |->
                      filter_None(config_hashes)[i].s])

(***************************************************************************)
(* _update_hashes: one iteration of the loop over the descriptors          *)
(***************************************************************************)

\* a variant of old_config_hash that never reads the stored hash
unread_config_hash(startup_config_json) == return(Str(<<>>))

\* old_config_hash after lines 203 and 216-218: '' unless the descriptor has
\* an environment, and then its EDPM_CONFIG_HASH, '' by default
old_config_hash(startup_config_json) ==
    IF dict_has(startup_config_json, k_environment)
    THEN LET environment == dict_get(startup_config_json, k_environment, None)
         IN  IF environment.type # "dict" THEN raise("AttributeError")
             ELSE return(dict_get(environment, k_EDPM_CONFIG_HASH, Str(<<>>)))
    ELSE return(Str(<<>>))

\* a variant of set_config_hash that does not create a missing environment
set_config_hash_no_create(startup_config_json, config_hash) ==
    IF ~dict_has(startup_config_json, k_environment)
    THEN startup_config_json
    ELSE dict_set(startup_config_json, k_environment,
                  dict_set(dict_get(startup_config_json, k_environment, None),
                           k_EDPM_CONFIG_HASH, Str(config_hash)))

\* a variant of set_config_hash that builds the environment anew
set_config_hash_new_environment(startup_config_json, config_hash) ==
    dict_set(startup_config_json, k_environment,
             Dict(<<k_EDPM_CONFIG_HASH>>, <<Str(config_hash)>>))

\* startup_config_json after lines 230-233: environment created when absent,
\* environment.EDPM_CONFIG_HASH set
set_config_hash(startup_config_json, config_hash) ==
    LET json == IF ~dict_has(startup_config_json, k_environment)
                THEN dict_set(startup_config_json, k_environment, Dict(<<>>, <<>>))
                ELSE startup_config_json
    IN  dict_set(json, k_environment,
                 dict_set(dict_get(json, k_environment, None),
                          k_EDPM_CONFIG_HASH, Str(config_hash)))

\* a variant of reconcile that writes the hash without comparing it
reconcile_without_comparison(startup_config_json, config_hashes, old) ==
    IF old.out # "return" THEN old
    ELSE [out |-> "update",
          val |-> set_config_hash(startup_config_json,
                                  join_hashes(config_hashes))]

\* lines 219-234: the comparison with the stored hash, and the descriptor to
\* write when they differ
reconcile(startup_config_json, config_hashes, old) ==
    IF old.out # "return" THEN old
    ELSE IF filter_object_bool(config_hashes)
    THEN IF Str(join_hashes(config_hashes)) = old.val
         THEN [out |-> "continue", val |-> None]
         ELSE [out |-> "update",
               val |-> set_config_hash(startup_config_json,
                                       join_hashes(config_hashes))]
    ELSE [out |-> "continue", val |-> None]

\* lines 212-218, given how _match_config_volumes ended
aggregate(startup_config_json, config_volumes) ==
    IF config_volumes.out # "return" THEN config_volumes
    ELSE reconcile(startup_config_json,
                   config_hashes_of(config_volumes.val),
                   old_config_hash(startup_config_json))

\* lines 210-211, given how json.loads ended
match(startup_config_json) ==
    IF startup_config_json.out # "return" THEN startup_config_json
    ELSE aggregate(startup_config_json.val,
                   match_config_volumes(startup_config_json.val))

\* a variant of update_hashes_body that reads the descriptor before it looks
\* at its name
update_hashes_body_read_first(config) ==
    IF json_loads(slurp(config).data).out # "return"
    THEN json_loads(slurp(config).data)
    ELSE IF startswith(splitext0(basename(config)), hashed_)
    THEN [out |-> "remove", val |-> None]
    ELSE match(json_loads(slurp(config).data))

\* The body of the for loop for descriptor config. It ends with the file
\* removed ("remove"), with continue or the end of the body and no write
\* ("continue"), with the descriptor val to write ("update"), or as a call
\* ends that does not return.
update_hashes_body(config) ==
    IF startswith(splitext0(basename(config)), hashed_)
    THEN [out |-> "remove", val |-> None]
    ELSE match(json_loads(slurp(config).data))

\* the warnings of the _slurp calls for the digest files of config_volumes
hash_warnings(config_volumes) ==
    UNION {IF exists(config_volumes[i] \o md5sum)
           THEN slurp(config_volumes[i] \o md5sum).warn
           ELSE {} : i \in 1..Len(config_volumes)}

\* the warnings of the _slurp calls of one iteration that reads the descriptor
body_warnings(config) ==
    slurp(config).warn \cup
    hash_warnings(match_config_volumes(json_loads(slurp(config).data).val).val)

\* the files after _remove_file(path)
remove_file(path) ==
    IF exists(path) THEN [p \in DOMAIN fs \ {path} |-> fs[p]] ELSE fs

\* the files after _update_container_config(path, config), lines 143-145;
\* check_mode is not consulted
update_container_config(path, config) ==
    (path :> File(json_dumps(config), MODE_0600)) @@ fs

\* a variant of results_changed that leaves the results as they are
results_left(r) == r

\* the results after self.results['changed'] = True, line 146
results_changed(r) == [r EXCEPT !.changed = TRUE]

\* a variant of after_fail_json: the error is recorded and the loop goes on
after_recorded_error == "loop"

\* the control state a call of module.fail_json leaves: the process exits
after_fail_json == "fail"

\* a variant of orderings: lists one longer, which hold an element twice
orderings_with_repeats(S) ==
    {l \in [1..(Cardinality(S) + 1) -> S] :
        \A x \in S : \E i \in DOMAIN l : l[i] = x}

\* the lists that hold each element of set S once
orderings(S) ==
    {l \in [1..Cardinality(S) -> S] : \A x \in S : \E i \in DOMAIN l : l[i] = x}

(***************************************************************************)
(* The run                                                                 *)
(***************************************************************************)

\* configs = self._find(CONTAINER_STARTUP_CONFIG)
Find ==
    /\ pc = "main"
    /\ \E l \in orderings(find_configs) : configs' = l
    /\ warnings' = warnings \cup find_warnings
    /\ pc' = "loop"
    /\ UNCHANGED <<config_vol_prefix, check_mode, root_exists, fs, results,
                   failure, run, before, log, history, match_vars>>

\* an obsolete descriptor: removed, and the loop continues
RemoveHashed ==
    /\ pc = "loop" /\ configs # <<>>
    /\ update_hashes_body(Head(configs)).out = "remove"
    /\ fs' = remove_file(Head(configs))
    /\ log' = Append(log, [path |-> Head(configs), outcome |-> "Removed"])
    /\ configs' = Tail(configs)
    /\ UNCHANGED <<config_vol_prefix, check_mode, root_exists, pc, results,
                   failure, warnings, run, before, history, match_vars>>

\* an active descriptor that is left as it is
Unchanged ==
    /\ pc = "loop" /\ configs # <<>>
    /\ update_hashes_body(Head(configs)).out = "continue"
    /\ warnings' = warnings \cup body_warnings(Head(configs))
    /\ log' = Append(log, [path |-> Head(configs), outcome |-> "Unchanged"])
    /\ configs' = Tail(configs)
    /\ UNCHANGED <<config_vol_prefix, check_mode, root_exists, fs, pc, results,
                   failure, run, before, history, match_vars>>

\* an active descriptor that is rewritten with its new hash
Update ==
    /\ pc = "loop" /\ configs # <<>>
    /\ \E body \in {update_hashes_body(Head(configs))} :
          /\ body.out = "update"
          /\ fs' = update_container_config(Head(configs), body.val)
    /\ results' = results_changed(results)
    /\ warnings' = warnings \cup body_warnings(Head(configs))
    /\ log' = Append(log, [path |-> Head(configs), outcome |-> "Updated"])
    /\ configs' = Tail(configs)
    /\ UNCHANGED <<config_vol_prefix, check_mode, root_exists, pc, failure,
                   run, before, history, match_vars>>

\* module.fail_json in _match_config_volumes or _get_config_base
FailJson ==
    /\ pc = "loop" /\ configs # <<>>
    /\ \E body \in {update_hashes_body(Head(configs))} :
          /\ body.out = "fail_json"
          /\ failure' = body
    /\ pc' = after_fail_json
    /\ configs' = IF after_fail_json = "fail" THEN configs ELSE Tail(configs)
    /\ UNCHANGED <<config_vol_prefix, check_mode, root_exists, fs, results,
                   warnings, run, before, log, history, match_vars>>

\* an exception nothing catches: the module ends with a traceback
Raise ==
    /\ pc = "loop" /\ configs # <<>>
    /\ \E body \in {update_hashes_body(Head(configs))} :
          /\ body.out = "raise"
          /\ failure' = body
    /\ pc' = "raise"
    /\ UNCHANGED <<config_vol_prefix, check_mode, root_exists, fs, configs,
                   results, warnings, run, before, log, history, match_vars>>

\* the while loop of _get_config_base never ends
Hang ==
    /\ pc = "loop" /\ configs # <<>>
    /\ update_hashes_body(Head(configs)).out = "loop"
    /\ pc' = "hang"
    /\ UNCHANGED <<config_vol_prefix, check_mode, root_exists, fs, configs,
                   results, failure, warnings, run, before, log, history,
                   match_vars>>

\* self.module.exit_json(**self.results)
ExitJson ==
    /\ pc = "loop" /\ configs = <<>>
    /\ pc' = "exit"
    /\ history' = Append(history, [fs |-> fs, log |-> log, results |-> results])
    /\ UNCHANGED <<config_vol_prefix, check_mode, root_exists, fs, configs,
                   results, failure, warnings, run, before, log, match_vars>>

(***************************************************************************)
(* Bounds and the inputs drawn                                             *)
(***************************************************************************)

\* the number of runs made one after the other
MaxRuns == 2

\* the longest volumes list the matcher harness is given
MaxVolumes == 2

prefix_p == <<"/", "p">>
prefix_p_slash == <<"/", "p", "/">>
prefix_root == <<"/">>
prefix_empty == <<>>

Prefixes == {prefix_p, prefix_p_slash, prefix_root, prefix_empty}

vol_ab == <<"/", "p", "/", "a", "/", "b", ":", "/", "x">>
vol_a == <<"/", "p", "/", "a">>
vol_c == <<"/", "p", "/", "c">>
vol_gen == prefix_p \o sep \o ansible_generated \o <<"/", "a", "/", "b">>
vol_sibling == <<"/", "p", "q", "/", "x">>
vol_prefix == <<"/", "p">>
vol_rel == <<"a", "/", "b">>

Volumes == {vol_ab, vol_a, vol_c, vol_gen, vol_sibling, vol_prefix, vol_rel}

hashfile_a == vol_a \o md5sum
hashfile_c == vol_c \o md5sum
hashfile_gen == prefix_p \o sep \o ansible_generated \o <<"/", "a">> \o md5sum

digest(text) == File(Text(text), 420)

\* the digest files the external digest writer may have left
DigestStates ==
    { <<>>,
      hashfile_a :> digest(<<"x", "\n">>),
      hashfile_a :> digest(<<"x", "\n">>) @@ hashfile_c :> digest(<<"y", "\n">>),
      hashfile_a :> digest(<<"\n">>) @@ hashfile_c :> digest(<<"y", "\n">>),
      hashfile_a :> digest(<<"x", "\n">>) @@ hashfile_c :> digest(<<"x", "\n">>)
          @@ hashfile_gen :> digest(<<"y", "-", "x", "\n">>),
      hashfile_a :> digest(<<"\n", "x", "\n", "\n">>)
          @@ hashfile_c :> digest(<<"y", "\n">>) }

\* the digest files a run may find
RunDigestStates ==
    { <<>>,
      hashfile_a :> digest(<<"x", "\n">>) @@ hashfile_c :> digest(<<"y", "\n">>),
      hashfile_a :> digest(<<"\n">>) @@ hashfile_c :> digest(<<"y", "\n">>) }

a_json == CONTAINER_STARTUP_CONFIG \o <<"/", "a", ".", "j", "s", "o", "n">>
c_json == CONTAINER_STARTUP_CONFIG \o <<"/", "c", ".", "j", "s", "o", "n">>
hashed_b_json ==
    CONTAINER_STARTUP_CONFIG \o <<"/">> \o hashed_ \o <<"b", ".", "j", "s", "o", "n">>

k_image == <<"i", "m", "a", "g", "e">>
k_TZ == <<"T", "Z">>

strs(l) == [i \in 1..Len(l) |-> Str(l[i])]

\* a descriptor with the given value of volumes and no environment
with_volumes(volumes) ==
    Dict(<<k_image, k_volumes>>, <<Str(<<"i">>), volumes>>)

\* a descriptor with the given value of volumes and a stored hash
with_hash(volumes, hash) ==
    Dict(<<k_volumes, k_environment>>,
         <<volumes, Dict(<<k_TZ, k_EDPM_CONFIG_HASH>>, <<Str(<<"u">>), Str(hash)>>)>>)

json_file(doc) == File(JsonText(doc, 4), 420)

\* the descriptors of a.json
Descriptors ==
    { json_file(with_volumes(List(strs(<<vol_ab, vol_c>>)))),
      json_file(with_volumes(List(strs(<<vol_ab, vol_a>>)))),
      json_file(with_hash(List(strs(<<vol_c, vol_a>>)), <<"x">>)),
      json_file(with_hash(List(strs(<<vol_gen>>)), <<"x">>)),
      json_file(with_hash(List(strs(<<vol_sibling>>)), <<"x">>)),
      json_file(with_hash(List(<<>>), <<"x">>)),
      json_file(Dict(<<k_environment>>, <<Dict(<<>>, <<>>)>>)),
      json_file(with_volumes(Str(vol_a))),
      json_file(with_volumes(Num(5))),
      json_file(with_volumes(None)),
      json_file(with_hash(Dict(<<vol_a>>, <<Str(<<"x">>)>>), <<"y">>)),
      json_file(List(strs(<<vol_a>>))),
      File(Text(<<"{">>), 420) }

\* the descriptors of c.json
OtherDescriptors ==
    { json_file(with_volumes(List(strs(<<vol_a>>)))),
      json_file(with_hash(List(strs(<<vol_sibling, vol_a>>)), <<"x">>)),
      json_file(List(<<>>)) }

\* the descriptor trees: a.json, and perhaps c.json and hashed-b.json
DescriptorTrees ==
    { a_json :> d : d \in Descriptors }
    \cup { a_json :> d @@ c_json :> e : d \in Descriptors, e \in OtherDescriptors }
    \cup { a_json :> d @@ c_json :> json_file(with_hash(List(strs(<<vol_sibling, vol_a>>)), <<"x">>))
               @@ hashed_b_json :> File(Text(<<"{">>), 420) :
             d \in Descriptors }

NoMatch ==
    /\ m_pc = "off"
    /\ in_volumes = <<>>
    /\ m_out = return(<<>>)
    /\ m_hash = <<>>

Init ==
    /\ config_vol_prefix \in {prefix_p, prefix_p_slash, prefix_root}
    /\ check_mode \in BOOLEAN
    /\ \/ /\ root_exists = TRUE
          /\ \E t \in DescriptorTrees, d \in RunDigestStates : fs = t @@ d
       \/ /\ root_exists = FALSE
          /\ fs \in RunDigestStates
    /\ pc = "main"
    /\ configs = <<>>
    /\ results = [changed |-> FALSE]
    /\ failure = None
    /\ warnings = {}
    /\ run = 1
    /\ before = fs
    /\ log = <<>>
    /\ history = <<>>
    /\ NoMatch

\* the part of the files that the digest writer owns
digests_of(files) ==
    [p \in {q \in DOMAIN files : endswith(q, md5sum)} |-> files[p]]

\* the part of the files that holds the descriptors
descriptors_of(files) ==
    [p \in {q \in DOMAIN files : ~endswith(q, md5sum)} |-> files[p]]

\* the external digest writer replaces the digest files between two runs
DigestWrite ==
    /\ pc = "exit" /\ run < MaxRuns
    /\ digests_of(fs) = digests_of(history[run].fs)
    /\ \E d \in RunDigestStates :
          /\ d # digests_of(fs)
          /\ fs' = descriptors_of(fs) @@ d
    /\ UNCHANGED <<config_vol_prefix, root_exists, run_vars, match_vars>>

\* the module is invoked again: main() builds a new results dict
NextRun ==
    /\ pc = "exit" /\ run < MaxRuns
    /\ run' = run + 1
    /\ pc' = "main"
    /\ results' = [changed |-> FALSE]
    /\ warnings' = {}
    /\ log' = <<>>
    /\ before' = fs
    /\ UNCHANGED <<config_vol_prefix, check_mode, root_exists, fs, configs,
                   failure, history, match_vars>>

Next ==
    \/ Find
    \/ RemoveHashed
    \/ Unchanged
    \/ Update
    \/ FailJson
    \/ Raise
    \/ Hang
    \/ ExitJson
    \/ DigestWrite
    \/ NextRun

Spec == Init /\ [][Next]_vars

(***************************************************************************)
(* The matcher and the aggregation on their own: a volumes list, a prefix  *)
(* and a set of digest files are drawn, _match_config_volumes is applied   *)
(* to a descriptor holding the list, and the hashes of the bases it        *)
(* returns are joined as _update_hashes joins them.                        *)
(***************************************************************************)

VolumeLists == UNION {[1..n -> Volumes] : n \in 0..MaxVolumes}

NoRun ==
    /\ check_mode = FALSE
    /\ root_exists = FALSE
    /\ pc = "off"
    /\ configs = <<>>
    /\ results = [changed |-> FALSE]
    /\ failure = None
    /\ warnings = {}
    /\ run = 1
    /\ before = fs
    /\ log = <<>>
    /\ history = <<>>

InitMatch ==
    /\ config_vol_prefix \in Prefixes
    /\ fs \in DigestStates
    /\ in_volumes \in VolumeLists
    /\ m_pc = "input"
    /\ m_out = return(<<>>)
    /\ m_hash = <<>>
    /\ NoRun

\* config_volumes = self._match_config_volumes(startup_config_json)
MatchVolumes ==
    /\ m_pc = "input"
    /\ m_out' = match_config_volumes(with_volumes(List(strs(in_volumes))))
    /\ m_pc' = "matched"
    /\ UNCHANGED <<config_vol_prefix, fs, in_volumes, m_hash, run_vars>>

\* config_hash = '-'.join(filter(None, [hash of each base]))
JoinHashes ==
    /\ m_pc = "matched"
    /\ m_out.out = "return"
    /\ m_hash' = join_hashes(config_hashes_of(m_out.val))
    /\ m_pc' = "hashed"
    /\ UNCHANGED <<config_vol_prefix, fs, in_volumes, m_out, run_vars>>

NextMatch ==
    \/ MatchVolumes
    \/ JoinHashes

SpecMatch == InitMatch /\ [][NextMatch]_vars

(***************************************************************************)
(* Properties                                                              *)
(***************************************************************************)

\* the descriptors that reach the matcher: *.json files under the startup
\* config directory whose name does not start with hashed-
is_active(p) ==
    /\ startswith(p, CONTAINER_STARTUP_CONFIG \o sep)
    /\ fnmatch_json(basename(p))
    /\ ~startswith(splitext0(basename(p)), hashed_)

\* environment.EDPM_CONFIG_HASH of a descriptor file, '' when there is none
stored_hash(file) ==
    LET doc == file.data.doc
    IN  IF doc.type = "dict" /\ dict_has(doc, k_environment)
        THEN LET environment == dict_get(doc, k_environment, None)
             IN  IF environment.type = "dict"
                 THEN dict_get(environment, k_EDPM_CONFIG_HASH, Str(<<>>))
                 ELSE Str(<<>>)
        ELSE Str(<<>>)

\* the iteration of the loop for descriptor p has been executed in this run
handled(p) ==
    \/ \E i \in DOMAIN log : log[i].path = p
    \/ pc \in {"fail", "raise", "hang"} /\ configs # <<>> /\ Head(configs) = p

\* the number of positions of list l that hold x
count(l, x) == Cardinality({i \in DOMAIN l : l[i] = x})

\* the digest files are those the current run started with
SameDigests == digests_of(fs) = digests_of(before)

\* C1: with check_mode set, a run leaves every descriptor file as it was
\* (content and permissions) and removes none.
C1_CheckModeLeavesFiles ==
    check_mode => descriptors_of(fs) = descriptors_of(before)

\* C2: an active descriptor for which no digest value is retained is not
\* rewritten, whatever hash it stores.
C2_NoUpdateWithoutDigest ==
    SameDigests =>
        \A p \in DOMAIN before :
            ( /\ is_active(p)
              /\ before[p].data.kind = "json"
              /\ match_config_volumes(before[p].data.doc).out = "return"
              /\ filter_None(config_hashes_of(
                     match_config_volumes(before[p].data.doc).val)) = <<>> )
            => (p \in DOMAIN fs /\ fs[p] = before[p])

mount_bases ==
    {get_config_base(config_vol_prefix, split0(in_volumes[i], ":")).val :
        i \in {k \in DOMAIN in_volumes :
                 startswith(in_volumes[k], config_vol_prefix)}}

C4_CrawlTerminates ==
    m_pc # "input" => m_out.out # "loop"

\* the lists that are in_volumes in another order
permutations_of(l) ==
    {[i \in DOMAIN l |-> l[f[i]]] :
        f \in {g \in [DOMAIN l -> DOMAIN l] :
                 \A i, j \in DOMAIN l : i # j => g[i] # g[j]}}

\* C7: the joined hash is the same for every order of the volumes list.
C7_OrderIndependent ==
    m_pc = "hashed" =>
        \A l \in permutations_of(in_volumes) :
            /\ match_config_volumes(with_volumes(List(strs(l)))).out = "return"
            /\ join_hashes(config_hashes_of(
                   match_config_volumes(with_volumes(List(strs(l)))).val)) = m_hash

\* a list given in descending order of its bases, both with a digest
C7_Witness ==
    /\ m_pc = "hashed"
    /\ in_volumes = <<vol_c, vol_ab>>
    /\ m_hash = <<"x", "-", "y">>

\* the path components of s: the non-empty parts between slashes
RECURSIVE components(_)
components(s) ==
    IF lstrip(s, "/") = <<>> THEN <<>>
    ELSE <<split0(lstrip(s, "/"), "/")>> \o
         components(SubSeq(lstrip(s, "/"),
                           Len(split0(lstrip(s, "/"), "/")) + 1,
                           Len(lstrip(s, "/"))))

\* source lies strictly below the prefix directory
strictly_below(prefix, source) ==
    /\ startswith(source, rstrip(prefix, "/") \o sep)
    /\ components(SubSeq(source, Len(rstrip(prefix, "/")) + 1, Len(source))) # <<>>

\* the reference base: prefix/<first component>, or
\* prefix/ansible-generated/<second component>
reference_base(prefix, source) ==
    LET below == components(SubSeq(source, Len(rstrip(prefix, "/")) + 1, Len(source)))
    IN  IF below[1] = ansible_generated /\ Len(below) >= 2
        THEN rstrip(prefix, "/") \o sep \o ansible_generated \o sep \o below[2]
        ELSE rstrip(prefix, "/") \o sep \o below[1]

\* C9: for a volume source strictly below the prefix the Base Resolver
\* returns the reference base.
C9_BaseResolutionCorrect ==
    ( /\ m_pc # "input"
      /\ config_vol_prefix # <<>>
      /\ Len(in_volumes) = 1
      /\ startswith(in_volumes[1], config_vol_prefix)
      /\ strictly_below(config_vol_prefix, split0(in_volumes[1], ":")) )
    => /\ m_out.out = "return"
       /\ m_out.val =
              <<reference_base(config_vol_prefix, split0(in_volumes[1], ":"))>>

\* C5: a run that follows a completed run, with the digest files as that run
\* left them, rewrites and removes nothing and reports changed = false.
C5_Idempotent ==
    (run >= 2 /\ digests_of(before) = digests_of(history[run - 1].fs)) =>
        /\ descriptors_of(fs) = descriptors_of(before)
        /\ results.changed = FALSE
        /\ \A i \in DOMAIN log : log[i].outcome = "Unchanged"

\* a second run has gone through the descriptors the first run rewrote
C5_Witness ==
    /\ run = 2 /\ pc = "exit"
    /\ digests_of(before) = digests_of(history[1].fs)
    /\ history[1].results.changed = TRUE
    /\ \E i \in DOMAIN history[1].log : history[1].log[i].outcome = "Updated"
    /\ Len(log) = 2

\* volumes is present in the descriptor and is not a list
malformed_volumes(file) ==
    /\ file.data.kind = "json"
    /\ file.data.doc.type = "dict"
    /\ dict_has(file.data.doc, k_volumes)
    /\ dict_get(file.data.doc, k_volumes, None).type # "list"

\* C6: handling a descriptor whose volumes is present and is not a sequence
\* ends the run with the error that names the prefix and the descriptor.
C6_MalformedVolumesFatal ==
    \A p \in DOMAIN before :
        (is_active(p) /\ malformed_volumes(before[p]) /\ handled(p)) =>
            /\ pc = "fail" /\ Head(configs) = p
            /\ failure.out = "fail_json"
            /\ failure.val.error = "Error fetching volumes"

\* the state a fatal error leaves: the error is reported, the descriptors not
\* yet handled are as they were, those rewritten or removed before stay so
FatalState ==
    pc = "fail" =>
        /\ failure.out = "fail_json"
        /\ failure.val.prefix = config_vol_prefix
        /\ \A i \in DOMAIN configs :
              configs[i] \in DOMAIN fs /\ fs[configs[i]] = before[configs[i]]
        /\ \A i \in DOMAIN log :
              /\ log[i].outcome = "Removed" => log[i].path \notin DOMAIN fs
              /\ log[i].outcome = "Updated" =>
                    /\ fs[log[i].path] # before[log[i].path]
                    /\ fs[log[i].path].mode = MODE_0600

\* C8: a fatal error ends the run at once, with the error reported: nothing
\* is rewritten or removed after it, and what was rewritten or removed
\* before it stays.
C8_FatalStopsRun ==
    /\ []FatalState
    /\ [][failure # None => (fs' = fs /\ failure' = failure)]_vars

\* a fatal error after one descriptor was rewritten and before an obsolete
\* one was reached
C8_Witness ==
    /\ pc = "fail"
    /\ \E i \in DOMAIN log : log[i].outcome = "Updated"
    /\ Len(configs) = 2
    /\ configs[2] = hashed_b_json

\* the hash _update_hashes computes for the descriptor file
aggregate_of(file) ==
    join_hashes(config_hashes_of(match_config_volumes(file.data.doc).val))

\* C10: after a run that completes, every active descriptor whose aggregate
\* is not empty stores it in environment.EDPM_CONFIG_HASH, and changed is
\* true when one of them stored another value before.
C10_HashStored ==
    (pc = "exit" /\ SameDigests) =>
        /\ \A p \in DOMAIN before :
              (is_active(p) /\ aggregate_of(before[p]) # <<>>) =>
                  /\ p \in DOMAIN fs
                  /\ fs[p].data.kind = "json"
                  /\ dict_has(fs[p].data.doc, k_environment)
                  /\ stored_hash(fs[p]) = Str(aggregate_of(before[p]))
        /\ (\E p \in DOMAIN before :
               /\ is_active(p)
               /\ aggregate_of(before[p]) # <<>>
               /\ stored_hash(before[p]) # Str(aggregate_of(before[p])))
           => results.changed = TRUE

\* a completed run gave a descriptor without environment its hash
C10_Witness ==
    /\ pc = "exit" /\ SameDigests
    /\ a_json \in DOMAIN fs
    /\ ~dict_has(before[a_json].data.doc, k_environment)
    /\ stored_hash(fs[a_json]) = Str(<<"x", "-", "y">>)
    /\ results.changed = TRUE

\* a scanned descriptor whose name without extension starts with hashed-
is_obsolete(p) ==
    /\ startswith(p, CONTAINER_STARTUP_CONFIG \o sep)
    /\ fnmatch_json(basename(p))
    /\ startswith(splitext0(basename(p)), hashed_)

\* C11: a descriptor named hashed-* is removed when the run comes to it,
\* whatever it holds: no error of reading or matching is ever raised for it,
\* and a run that completes leaves none.
C11_ObsoleteRemoved ==
    /\ \A i \in DOMAIN log :
          is_obsolete(log[i].path) =>
              log[i].outcome = "Removed" /\ log[i].path \notin DOMAIN fs
    /\ (pc \in {"fail", "raise", "hang"}) => ~is_obsolete(Head(configs))
    /\ pc = "exit" =>
          \A p \in DOMAIN before : is_obsolete(p) => p \notin DOMAIN fs

\* a run that completed removed an obsolete descriptor that is no JSON text
C11_Witness ==
    /\ pc = "exit"
    /\ hashed_b_json \in DOMAIN before
    /\ before[hashed_b_json].data.kind = "text"
    /\ hashed_b_json \notin DOMAIN fs
    /\ \E i \in DOMAIN log :
          log[i].path = hashed_b_json /\ log[i].outcome = "Removed"

\* the keys of a mapping other than k, in their order
keys_other_than(dict, k) == SelectSeq(dict.keys, LAMBDA x : x # k)

\* mappings old and new hold the same keys in the same order, k apart, and
\* the same value for each of them
same_but(old, new, k) ==
    /\ keys_other_than(new, k) = keys_other_than(old, k)
    /\ \A i \in DOMAIN old.keys :
          old.keys[i] # k => dict_get(new, old.keys[i], None) = old.vals[i]

\* the environment of a descriptor, the empty mapping when it has none
environment_of(doc) ==
    IF dict_has(doc, k_environment) THEN dict_get(doc, k_environment, None)
    ELSE Dict(<<>>, <<>>)

\* C12: a rewritten descriptor differs from the one read in
\* environment.EDPM_CONFIG_HASH only: the other top-level fields, volumes
\* among them, and the other entries of environment are as they were.
C12_OnlyHashChanges ==
    \A i \in DOMAIN log :
        log[i].outcome = "Updated" =>
            /\ fs[log[i].path].data.kind = "json"
            /\ fs[log[i].path].data.doc.type = "dict"
            /\ same_but(before[log[i].path].data.doc,
                        fs[log[i].path].data.doc, k_environment)
            /\ same_but(environment_of(before[log[i].path].data.doc),
                        environment_of(fs[log[i].path].data.doc),
                        k_EDPM_CONFIG_HASH)

\* a descriptor with volumes and another entry in environment was rewritten
C12_Witness ==
    /\ \E i \in DOMAIN log :
          log[i].path = a_json /\ log[i].outcome = "Updated"
    /\ before[a_json] = json_file(with_hash(List(strs(<<vol_c, vol_a>>)), <<"x">>))
    /\ stored_hash(fs[a_json]) = Str(<<"x", "-", "y">>)
    /\ dict_get(environment_of(fs[a_json].data.doc), k_TZ, None) = Str(<<"u">>)

\* the descriptor p of the start of the run is active, and the hash it stores
\* is the one _update_hashes computes for it
up_to_date(p) ==
    /\ is_active(p)
    /\ before[p].data.kind = "json"
    /\ match_config_volumes(before[p].data.doc).out = "return"
    /\ stored_hash(before[p]) = Str(aggregate_of(before[p]))

\* C13: an active descriptor that stores the hash computed for it is not
\* written and does not set changed; a run in which every active descriptor
\* is so ends with changed = false.
C13_NoSpuriousUpdate ==
    SameDigests =>
        /\ \A i \in DOMAIN log :
              up_to_date(log[i].path) =>
                  /\ log[i].outcome = "Unchanged"
                  /\ fs[log[i].path] = before[log[i].path]
        /\ (pc = "exit" /\ \A p \in DOMAIN before : is_active(p) => up_to_date(p))
              => results.changed = FALSE

\* a first run found the hash of c.json stored already and completed with
\* nothing changed
C13_Witness ==
    /\ run = 1 /\ pc = "exit" /\ SameDigests
    /\ c_json \in DOMAIN before
    /\ stored_hash(before[c_json]) = Str(<<"x">>)
    /\ aggregate_of(before[c_json]) = <<"x">>
    /\ \A p \in DOMAIN before : is_active(p) => up_to_date(p)
    /\ \E i \in DOMAIN log :
          log[i].path = c_json /\ log[i].outcome = "Unchanged"
    /\ results.changed = FALSE

\* the volumes lists another list is compared with: those of two mounts at
\* most
ComparedLists == UNION {[1..n -> Volumes] : n \in 0..2}

\* how the matcher ends for the volumes list l
match_of(l) == match_config_volumes(with_volumes(List(strs(l))))

\* the set of the elements of list l
elements(l) == {l[i] : i \in DOMAIN l}

\* C14, as claimed: two volumes lists whose sets of bases differ have
\* different hashes.
C14_OtherBasesOtherHash ==
    m_pc = "hashed" =>
        \A l \in ComparedLists :
            ( /\ match_of(l).out = "return"
              /\ elements(match_of(l).val) # elements(m_out.val) )
            => join_hashes(config_hashes_of(match_of(l).val)) # m_hash

\* the digest values kept for the bases: those of the digest files that
\* exist and are not empty, in the order of the bases
retained(bases) ==
    [i \in 1..Len(filter_None(config_hashes_of(bases))) |->
        filter_None(config_hashes_of(bases))[i].s]

\* no value of list l holds the separator
dash_free(l) == \A i \in DOMAIN l : \A j \in DOMAIN l[i] : l[i][j] # "-"

\* C14, amended: the hashes of two volumes lists differ exactly when their
\* lists of kept digest values differ, as long as no value holds a '-'.
C14_OtherValuesOtherHash ==
    m_pc = "hashed" =>
        \A l \in ComparedLists : \A o \in {match_of(l)} :
            ( /\ o.out = "return"
              /\ dash_free(retained(o.val))
              /\ dash_free(retained(m_out.val)) )
            => ( retained(o.val) # retained(m_out.val)
                 <=> join_hashes(config_hashes_of(o.val)) # m_hash )

\* two bases with the digests x and y, against the list of the second alone
C14_Witness ==
    /\ m_pc = "hashed"
    /\ in_volumes = <<vol_a, vol_c>>
    /\ m_hash = <<"x", "-", "y">>
    /\ retained(m_out.val) = <<<<"x">>, <<"y">>>>
    /\ retained(match_of(<<vol_c>>).val) = <<<<"y">>>>
    /\ join_hashes(config_hashes_of(match_of(<<vol_c>>).val)) = <<"y">>

\* the text of the digest file of base b, empty when there is no such file
digest_text(b) ==
    IF (b \o md5sum) \in DOMAIN fs THEN fs[b \o md5sum].data.text ELSE <<>>

\* s without its last character when that is a newline
without_trailing_newline(s) ==
    IF s # <<>> /\ s[Len(s)] = "\n" THEN SubSeq(s, 1, Len(s) - 1) ELSE s

\* s without the newlines before its first and after its last other character
without_outer_newlines(s) ==
    LET inner == {i \in DOMAIN s : s[i] # "\n"}
    IN  IF inner = {} THEN <<>>
        ELSE SubSeq(s, CHOOSE i \in inner : \A j \in inner : i <= j,
                       CHOOSE i \in inner : \A j \in inner : i >= j)

\* the values that are not empty, in their order, with one '-' between two
RECURSIVE dash_joined(_)
dash_joined(values) ==
    IF values = <<>> THEN <<>>
    ELSE IF values[1] = <<>> THEN dash_joined(Tail(values))
    ELSE IF dash_joined(Tail(values)) = <<>> THEN values[1]
    ELSE values[1] \o <<"-">> \o dash_joined(Tail(values))

\* C15, as claimed: the hash is the digest texts of the bases, each without
\* its trailing newline, the empty ones left out, joined by '-' in the order
\* of the matcher.
C15_JoinOfTrailingTrimmed ==
    m_pc = "hashed" =>
        m_hash = dash_joined([i \in DOMAIN m_out.val |->
                     without_trailing_newline(digest_text(m_out.val[i]))])

\* C15, amended: the hash is the digest texts of the bases, each without
\* its leading and trailing newlines, the empty ones left out, joined by '-'
\* in the order of the matcher.
C15_JoinOfStripped ==
    m_pc = "hashed" =>
        m_hash = dash_joined([i \in DOMAIN m_out.val |->
                     without_outer_newlines(digest_text(m_out.val[i]))])

\* two bases given in descending order, the digest of the first in
\* ascending order with newlines on both sides
C15_Witness ==
    /\ m_pc = "hashed"
    /\ in_volumes = <<vol_c, vol_ab>>
    /\ m_out.val = <<vol_a, vol_c>>
    /\ digest_text(vol_a) = <<"\n", "x", "\n", "\n">>
    /\ digest_text(vol_c) = <<"y", "\n">>
    /\ m_hash = <<"x", "-", "y">>

\* source is neither the prefix directory nor a path below it
outside_tree(prefix, source) ==
    /\ rstrip(source, "/") # rstrip(prefix, "/")
    /\ ~startswith(source, rstrip(prefix, "/") \o sep)

\* C16: a volumes list whose mounts all lie outside the tree of the prefix
\* yields no base and an empty hash, and the matcher does not fail.
C16_OutsideMountsIgnored ==
    ( /\ m_pc # "input"
      /\ config_vol_prefix # <<>>
      /\ \A i \in DOMAIN in_volumes :
            outside_tree(config_vol_prefix, split0(in_volumes[i], ":")) )
    => /\ m_out = return(<<>>)
       /\ m_hash = <<>>

\* C17: when the run has handled an active descriptor, a warning has been
\* emitted for each of its bases that has no digest file.
C17_MissingDigestWarns ==
    SameDigests =>
        \A i \in DOMAIN log :
            ( /\ is_active(log[i].path)
              /\ before[log[i].path].data.kind = "json"
              /\ match_config_volumes(before[log[i].path].data.doc).out = "return" )
            => \A b \in elements(match_config_volumes(
                                     before[log[i].path].data.doc).val) :
                   (b \o md5sum) \notin DOMAIN before
                       => (b \o md5sum) \in warnings

\* the descriptors _find lists at the start of the run
scanned ==
    IF root_exists
    THEN {p \in DOMAIN before :
            /\ startswith(p, CONTAINER_STARTUP_CONFIG \o sep)
            /\ fnmatch_json(basename(p))}
    ELSE {}

\* C18: no descriptor is handled twice in a run, each handled descriptor has
\* one outcome, Removed exactly when its name starts with hashed-, and a run
\* that completes has handled each scanned descriptor.
C18_ProcessedOnce ==
    /\ \A i, j \in DOMAIN log : i # j => log[i].path # log[j].path
    /\ \A i \in DOMAIN log :
          /\ log[i].path \in scanned
          /\ log[i].outcome \in {"Removed", "Unchanged", "Updated"}
          /\ log[i].outcome = "Removed" <=> is_obsolete(log[i].path)
    /\ pc = "exit" => {log[i].path : i \in DOMAIN log} = scanned

\* a completed run with one descriptor of each outcome
C18_Witness ==
    /\ pc = "exit"
    /\ Len(log) = 3
    /\ {log[i].outcome : i \in DOMAIN log} = {"Removed", "Unchanged", "Updated"}

\* how lines 195-196 end for the volumes list l under the given prefix
bases_under(prefix, l) ==
    IF config_bases(prefix, strs(l)).out = "return"
    THEN return(sorted(config_bases(prefix, strs(l)).val))
    ELSE config_bases(prefix, strs(l))

\* what two prefixes can agree on: the bases returned, or the way of failing
selection(o) == IF o.out = "return" THEN o ELSE [out |-> o.out]

\* the prefix written the other way: with or without the separator at its end
other_spelling(prefix) ==
    IF endswith(prefix, sep) THEN rstrip(prefix, "/") ELSE prefix \o sep

\* C19: the matcher selects the same mounts, resolves the same bases and
\* fails in the same cases whether or not the prefix ends with a separator.
C19_TrailingSeparatorIrrelevant ==
    (m_pc # "input" /\ rstrip(config_vol_prefix, "/") # <<>>) =>
        selection(bases_under(other_spelling(config_vol_prefix), in_volumes))
            = selection(m_out)

\* C20: at the end of a completed run changed is true exactly when the run
\* rewrote a descriptor; the removal of obsolete descriptors does not set it.
C20_ChangedIffRewritten ==
    pc = "exit" =>
        /\ results.changed <=>
              \E i \in DOMAIN log : log[i].outcome = "Updated"
        /\ results.changed <=>
              \E p \in DOMAIN descriptors_of(fs) :
                  descriptors_of(fs)[p] # descriptors_of(before)[p]

\* a completed run that removed an obsolete descriptor and rewrote none
C20_Witness ==
    /\ pc = "exit"
    /\ \E i \in DOMAIN log : log[i].outcome = "Removed"
    /\ \A i \in DOMAIN log : log[i].outcome # "Updated"
    /\ descriptors_of(fs) # descriptors_of(before)
    /\ results.changed = FALSE

====
